---- MODULE Spec2Model ----
(***************************************************************************)
(* Model of elk/samples/entry_point.c: main() rounds the address of an     *)
(* embedded machine-code blob down to its page, asks the kernel to make    *)
(* that page readable and executable (mprotect), and on success calls the  *)
(* blob, which performs exit(0).                                           *)
(*                                                                         *)
(* A 64-bit size_t is a tuple of four 16-bit limbs, least significant      *)
(* first (TLC integers are 32 bits wide).  Page protections are the        *)
(* PROT_* bit masks.  The memory map `mem` is a function from the base     *)
(* address of each mapped page to its protection bits.                     *)
(***************************************************************************)
EXTENDS Integers, Sequences, FiniteSets, TLC

VARIABLES
    pc,          \* statement of main() about to run, "blob" inside the blob, "done" at the end
    instr,       \* the global `instr`: address of the blob (a string literal)
    region,      \* the local `region` of main()
    ret,         \* the local `ret` of main()
    errno,       \* the thread's errno
    out,         \* what main() passed to printf so far: <<line, value>>
    mem,         \* the process's page protections (the kernel's record)
    execAllowed, \* the platform's policy: may this process make the page executable?
    ip,          \* offset of the next blob instruction from instr
    rdi,         \* register rdi while inside the blob
    rax,         \* register rax while inside the blob
    term,        \* how the process ended: "none", "return", "exit", "signal"
    status,      \* main's return value, the exit status, or the signal number
    mem0,        \* history: the page protections at program start
    requests,    \* history: the permission-change requests issued, with their results
    invoked,     \* history: control was transferred to the blob
    touched      \* history: the pages whose protection a request of main() set

vars == <<pc, instr, region, ret, errno, out, mem, execAllowed, ip, rdi, rax,
          term, status, mem0, requests, invoked, touched>>

(***************************************************************************)
(* Bounds of the model.                                                    *)
(***************************************************************************)
\* registers hold an arbitrary value 0..MaxGarbage when main() calls f()
MaxGarbage == 2
\* the harness of SpecTwice issues at most MaxCalls permission transitions
MaxCalls == 3

(***************************************************************************)
(* Constants of the program and of the platform interface it uses.         *)
(***************************************************************************)
LowMask == 4095      \* 0xfff
PageLen == 4096      \* 0x1000
PROT_READ == 1
PROT_WRITE == 2
PROT_EXEC == 4
SYS_exit == 60       \* the immediate b8 3c 00 00 00 loads
EBADF == 9
ENOMEM == 12
EACCES == 13
EINVAL == 22
SIGSEGV == 11
Limb == 65536

\* const char *instr = "\x48\x31\xff\xb8\x3c\x00\x00\x00\x0f\x05"; (plus the NUL)
Instr == <<72, 49, 255, 184, 60, 0, 0, 0, 15, 5, 0>>
\* the instruction bytes proper (the string's length)
BlobLen == Len(Instr) - 1

(***************************************************************************)
(* Integer and 64-bit arithmetic as the C code computes it.                *)
(***************************************************************************)
RECURSIVE BitAnd(_, _)
BitAnd(a, b) ==
    IF a = 0 \/ b = 0 THEN 0
    ELSE (a % 2) * (b % 2) + 2 * BitAnd(a \div 2, b \div 2)

RECURSIVE BitOr(_, _)
BitOr(a, b) ==
    IF a = 0 THEN b
    ELSE IF b = 0 THEN a
    ELSE (IF (a % 2) + (b % 2) > 0 THEN 1 ELSE 0) + 2 * BitOr(a \div 2, b \div 2)

\* ~x on a (32-bit, two's complement) int
IntNot(x) == -x - 1

\* conversion of an int to size_t (unsigned long, 64 bits): value modulo 2^64,
\* that is, sign extension
IntToSizeT(x) ==
    <<x % Limb, (x \div Limb) % Limb,
      IF x < 0 THEN Limb - 1 ELSE 0, IF x < 0 THEN Limb - 1 ELSE 0>>

\* a & b on size_t
And64(a, b) == <<BitAnd(a[1], b[1]), BitAnd(a[2], b[2]),
                 BitAnd(a[3], b[3]), BitAnd(a[4], b[4])>>

\* a + n on size_t (modulo 2^64), 0 <= n < 2^16
Add64(a, n) ==
    LET s1 == a[1] + n
        s2 == a[2] + s1 \div Limb
        s3 == a[3] + s2 \div Limb
        s4 == a[4] + s3 \div Limb
    IN  <<s1 % Limb, s2 % Limb, s3 % Limb, s4 % Limb>>

(***************************************************************************)
(* The platform: pages, the memory map and mprotect(2).                    *)
(***************************************************************************)
\* the page an address lies in, as the memory-management hardware sees it:
\* floor(a / 4096) * 4096 (4096 divides 2^16, so only the low limb changes)
PageOf(a) == <<a[1] - (a[1] % PageLen), a[2], a[3], a[4]>>

\* a's offset in its page
PageOffset(a) == a[1] % PageLen

\* the pages the byte range [a, a+len) touches, len >= 1
PagesOfRange(a, len) == {PageOf(Add64(a, k)) : k \in 0..(len - 1)}

\* the pages an mprotect(addr, len, ..) covers: len is rounded up to whole pages
PagesOfRequest(addr, len) ==
    {Add64(addr, k * PageLen) : k \in 0..(((len + PageLen - 1) \div PageLen) - 1)}

Mapped(m, p) == p \in DOMAIN m

Executable(m, a) == Mapped(m, PageOf(a)) /\ BitAnd(m[PageOf(a)], PROT_EXEC) # 0

\* mprotect(addr, len, prot) on memory map m under the platform's policy:
\* the return value, the errno it sets (0: left alone) and the new memory map
Mprotect(m, addr, len, prot, allowed) ==
    IF PageOffset(addr) # 0
    THEN [ret |-> -1, err |-> EINVAL, mem |-> m]
    ELSE IF \E p \in PagesOfRequest(addr, len) : ~Mapped(m, p)
    THEN [ret |-> -1, err |-> ENOMEM, mem |-> m]
    ELSE IF BitAnd(prot, PROT_EXEC) # 0 /\ ~allowed
    THEN [ret |-> -1, err |-> EACCES, mem |-> m]
    ELSE [ret |-> 0, err |-> 0,
          mem |-> [p \in DOMAIN m |->
                     IF p \in PagesOfRequest(addr, len) THEN prot ELSE m[p]]]

(***************************************************************************)
(* The program's inputs: where the toolchain put the string literal, and   *)
(* the state of its pages at program start.                                *)
(***************************************************************************)
\* bases of the page the literal starts in: a fixed-address executable
\* (0x402000), a position-independent one (0x555555556000), and a page whose
\* successor carries into the next limb (0x7ffff7fff000)
PageBases == { <<8192, 64, 0, 0>>, <<24576, 21845, 21845, 0>>, <<61440, 63487, 32767, 0>> }

\* offsets of the literal in its page: a string literal has alignment 1
Offsets == {0, 4, 8, 4086, 4087, 4090, 4095}

Addrs == {Add64(b, o) : b \in PageBases, o \in Offsets}

\* the protections a page holding read-only data can start with
DataProts == {PROT_READ, BitOr(PROT_READ, PROT_WRITE), BitOr(PROT_READ, PROT_EXEC)}

\* the memory maps the program can start with, the blob at address a: every
\* page holding a byte of the literal is mapped and readable; the page after
\* the literal's first page may be unmapped when the literal does not reach it
MemLayouts(a) ==
    LET p0 == PageOf(a)
        p1 == Add64(p0, PageLen)
        all == { [p \in {p0, p1} |-> IF p = p0 THEN x ELSE y] : x \in DataProts, y \in DataProts }
        one == { [p \in {p0} |-> x] : x \in DataProts }
    IN  IF p1 \in PagesOfRange(a, Len(Instr)) THEN all ELSE all \cup one

Init ==
    /\ instr \in Addrs
    /\ mem \in MemLayouts(instr)
    /\ mem0 = mem
    /\ execAllowed \in BOOLEAN
    /\ pc = "L11"
    /\ region = <<0, 0, 0, 0>>
    /\ ret = 0
    /\ errno = 0
    /\ out = <<>>
    /\ ip = 0
    /\ rdi = 0
    /\ rax = 0
    /\ term = "none"
    /\ status = 0
    /\ requests = <<>>
    /\ invoked = FALSE
    /\ touched = {}

(***************************************************************************)
(* main(), one action per statement.                                       *)
(***************************************************************************)
\* printf(...): records what was passed; a failing write may set errno
Printf(line, value) ==
    /\ out' = Append(out, <<line, value>>)
    /\ \E e \in {0, EBADF} : errno' = IF e = 0 THEN errno ELSE e

\* printf("        main @ %p\n", &main);
L11 ==
    /\ pc = "L11"
    /\ Printf(11, <<>>)
    /\ pc' = "L12"
    /\ UNCHANGED <<instr, region, ret, mem, execAllowed, ip, rdi, rax, term,
                   status, mem0, requests, invoked, touched>>

\* printf("instructions @ %p\n", instr);
L12 ==
    /\ pc = "L12"
    /\ Printf(12, instr)
    /\ pc' = "L14"
    /\ UNCHANGED <<instr, region, ret, mem, execAllowed, ip, rdi, rax, term,
                   status, mem0, requests, invoked, touched>>

\* size_t region = (size_t) instr;
L14 ==
    /\ pc = "L14"
    /\ region' = instr
    /\ pc' = "L15"
    /\ UNCHANGED <<instr, ret, errno, out, mem, execAllowed, ip, rdi, rax, term,
                   status, mem0, requests, invoked, touched>>

\* the mask with the int converted as if it were unsigned: 0x00000000fffff000
PageMaskZeroExtended == <<Limb - PageLen, Limb - 1, 0, 0>>

\* (~0xfff): an int, converted to size_t for the &
PageMask == IntToSizeT(IntNot(LowMask))

\* region = region & (~0xfff);
L15 ==
    /\ pc = "L15"
    /\ region' = And64(region, PageMask)
    /\ pc' = "L16"
    /\ UNCHANGED <<instr, ret, errno, out, mem, execAllowed, ip, rdi, rax, term,
                   status, mem0, requests, invoked, touched>>

\* printf("        page @ %p\n", &region);   (the address of the local)
L16 ==
    /\ pc = "L16"
    /\ Printf(16, <<>>)
    /\ pc' = "L17"
    /\ UNCHANGED <<instr, region, ret, mem, execAllowed, ip, rdi, rax, term,
                   status, mem0, requests, invoked, touched>>

\* printf("making it executable...\n");
L17 ==
    /\ pc = "L17"
    /\ Printf(17, <<>>)
    /\ pc' = "L19"
    /\ UNCHANGED <<instr, region, ret, mem, execAllowed, ip, rdi, rax, term,
                   status, mem0, requests, invoked, touched>>

\* a request that keeps write permission
ReqProtWritable == BitOr(BitOr(PROT_READ, PROT_WRITE), PROT_EXEC)

\* PROT_READ | PROT_EXEC
ReqProt == BitOr(PROT_READ, PROT_EXEC)

\* the arguments of the request: (void*) region, 0x1000, PROT_READ | PROT_EXEC
MprotectArgs(r) == [addr |-> r, len |-> PageLen, prot |-> ReqProt]

\* a transition that refuses a page that is already executable
PermissionTransitionSingleUse(m, r, allowed) ==
    IF Mapped(m, r) /\ BitAnd(m[r], PROT_EXEC) # 0
    THEN [ret |-> -1, err |-> EINVAL, mem |-> m]
    ELSE Mprotect(m, r, PageLen, ReqProt, allowed)

\* mprotect((void*) region, 0x1000, PROT_READ | PROT_EXEC)
PermissionTransition(m, r, allowed) ==
    Mprotect(m, MprotectArgs(r).addr, MprotectArgs(r).len, MprotectArgs(r).prot, allowed)

\* the effect of one request on the process, and its record in the history
Request(r, res) ==
    /\ mem' = res.mem
    /\ errno' = IF res.ret = 0 THEN errno ELSE res.err
    /\ requests' = Append(requests, [addr |-> MprotectArgs(r).addr,
                                     len |-> MprotectArgs(r).len,
                                     prot |-> MprotectArgs(r).prot,
                                     ret |-> res.ret, err |-> res.err,
                                     after |-> res.mem])
    /\ touched' = IF res.ret = 0
                  THEN touched \cup PagesOfRequest(MprotectArgs(r).addr, MprotectArgs(r).len)
                  ELSE touched

\* int ret = mprotect(...);
L19 ==
    /\ pc = "L19"
    /\ LET res == PermissionTransition(mem, region, execAllowed)
       IN  /\ ret' = res.ret
           /\ Request(region, res)
    /\ pc' = "L24"
    /\ UNCHANGED <<instr, region, out, execAllowed, ip, rdi, rax, term,
                   status, mem0, invoked>>

\* the check left out: the failure falls through to the call
L24FallThrough ==
    /\ pc = "L24"
    /\ pc' = "L29"
    /\ UNCHANGED <<instr, region, ret, errno, out, mem, execAllowed, ip, rdi, rax,
                   term, status, mem0, requests, invoked, touched>>

\* a failed request issued again
L24Retry ==
    /\ pc = "L24"
    /\ IF ret # 0 /\ Len(requests) < MaxCalls
       THEN /\ LET res == PermissionTransition(mem, region, execAllowed)
               IN  /\ ret' = res.ret
                   /\ Request(region, res)
            /\ pc' = "L24"
       ELSE /\ pc' = IF ret # 0 THEN "L25" ELSE "L29"
            /\ UNCHANGED <<ret, errno, mem, requests, touched>>
    /\ UNCHANGED <<instr, region, out, execAllowed, ip, rdi, rax, term,
                   status, mem0, invoked>>

\* if(ret != 0){
L24 ==
    /\ pc = "L24"
    /\ pc' = IF ret # 0 THEN "L25" ELSE "L29"
    /\ UNCHANGED <<instr, region, ret, errno, out, mem, execAllowed, ip, rdi, rax,
                   term, status, mem0, requests, invoked, touched>>

\* the return value reported in place of errno
L25ReportRet ==
    /\ pc = "L25"
    /\ Printf(25, <<ret>>)
    /\ pc' = "L26"
    /\ UNCHANGED <<instr, region, ret, mem, execAllowed, ip, rdi, rax, term,
                   status, mem0, requests, invoked, touched>>

\* printf("failed, error: %d\n", errno);
L25 ==
    /\ pc = "L25"
    /\ Printf(25, <<errno>>)
    /\ pc' = "L26"
    /\ UNCHANGED <<instr, region, ret, mem, execAllowed, ip, rdi, rax, term,
                   status, mem0, requests, invoked, touched>>

\* return 1;
L26 ==
    /\ pc = "L26"
    /\ term' = "return"
    /\ status' = 1
    /\ pc' = "done"
    /\ UNCHANGED <<instr, region, ret, errno, out, mem, execAllowed, ip, rdi, rax,
                   mem0, requests, invoked, touched>>

\* void (*f)(void) = (void*) instr;
L29 ==
    /\ pc = "L29"
    /\ pc' = "L30"
    /\ UNCHANGED <<instr, region, ret, errno, out, mem, execAllowed, ip, rdi, rax,
                   term, status, mem0, requests, invoked, touched>>

\* printf("doing the jump thing\n");
L30 ==
    /\ pc = "L30"
    /\ Printf(30, <<>>)
    /\ pc' = "L31"
    /\ UNCHANGED <<instr, region, ret, mem, execAllowed, ip, rdi, rax, term,
                   status, mem0, requests, invoked, touched>>

\* f();   the call clobbers nothing itself; rdi and rax hold what printf left
L31 ==
    /\ pc = "L31"
    /\ \E d \in 0..MaxGarbage, a \in 0..MaxGarbage : rdi' = d /\ rax' = a
    /\ ip' = 0
    /\ invoked' = TRUE
    /\ pc' = "blob"
    /\ UNCHANGED <<instr, region, ret, errno, out, mem, execAllowed, term,
                   status, mem0, requests, touched>>

(***************************************************************************)
(* The blob, one action per instruction, as the processor runs it.         *)
(***************************************************************************)
\* the byte at offset k of the literal
Byte(k) == IF k + 1 \in DOMAIN Instr THEN Instr[k + 1] ELSE 0

\* the instruction that starts at offset k
Insn(k) ==
    IF Byte(k) = 72 /\ Byte(k + 1) = 49 /\ Byte(k + 2) = 255
    THEN [op |-> "xor_rdi_rdi", len |-> 3, imm |-> 0]          \* 48 31 ff
    ELSE IF Byte(k) = 184
    THEN [op |-> "mov_eax_imm32", len |-> 5,                    \* b8 imm32
          imm |-> Byte(k + 1) + 256 * Byte(k + 2) + 65536 * Byte(k + 3)
                  + 16777216 * Byte(k + 4)]
    ELSE IF Byte(k) = 15 /\ Byte(k + 1) = 5
    THEN [op |-> "syscall", len |-> 2, imm |-> 0]               \* 0f 05
    ELSE [op |-> "other", len |-> 1, imm |-> 0]

\* every byte of the instruction at offset k lies in an executable page
Fetchable(k) ==
    \A j \in k..(k + Insn(k).len - 1) : Executable(mem, Add64(instr, j))

\* xor rdi, rdi
BlobXor ==
    /\ pc = "blob" /\ Fetchable(ip) /\ Insn(ip).op = "xor_rdi_rdi"
    /\ rdi' = 0
    /\ ip' = ip + Insn(ip).len
    /\ UNCHANGED <<pc, instr, region, ret, errno, out, mem, execAllowed, rax, term,
                   status, mem0, requests, invoked, touched>>

\* mov eax, 60  (the upper half of rax is cleared)
BlobMov ==
    /\ pc = "blob" /\ Fetchable(ip) /\ Insn(ip).op = "mov_eax_imm32"
    /\ rax' = Insn(ip).imm
    /\ ip' = ip + Insn(ip).len
    /\ UNCHANGED <<pc, instr, region, ret, errno, out, mem, execAllowed, rdi, term,
                   status, mem0, requests, invoked, touched>>

\* syscall with rax = 60: exit(rdi), the process ends with status rdi & 0xff
BlobSyscall ==
    /\ pc = "blob" /\ Fetchable(ip) /\ Insn(ip).op = "syscall"
    /\ rax = SYS_exit
    /\ term' = "exit"
    /\ status' = rdi % 256
    /\ pc' = "done"
    /\ UNCHANGED <<instr, region, ret, errno, out, mem, execAllowed, ip, rdi, rax,
                   mem0, requests, invoked, touched>>

\* an instruction fetch from a page without execute permission: SIGSEGV
BlobFault ==
    /\ pc = "blob" /\ ~Fetchable(ip)
    /\ term' = "signal"
    /\ status' = SIGSEGV
    /\ pc' = "done"
    /\ UNCHANGED <<instr, region, ret, errno, out, mem, execAllowed, ip, rdi, rax,
                   mem0, requests, invoked, touched>>

Next ==
    \/ L11 \/ L12 \/ L14 \/ L15 \/ L16 \/ L17 \/ L19 \/ L24 \/ L25 \/ L26
    \/ L29 \/ L30 \/ L31
    \/ BlobXor \/ BlobMov \/ BlobSyscall \/ BlobFault

Spec == Init /\ [][Next]_vars

(***************************************************************************)
(* The permission transition of main() applied repeatedly to the region    *)
(* main() resolves, by a caller that keeps the process alive.              *)
(***************************************************************************)
InitTwice ==
    /\ instr \in Addrs
    /\ mem \in MemLayouts(instr)
    /\ mem0 = mem
    /\ execAllowed \in BOOLEAN
    /\ pc = "transition"
    /\ region = And64(instr, PageMask)
    /\ ret = 0
    /\ errno = 0
    /\ out = <<>>
    /\ ip = 0
    /\ rdi = 0
    /\ rax = 0
    /\ term = "none"
    /\ status = 0
    /\ requests = <<>>
    /\ invoked = FALSE
    /\ touched = {}

Transition ==
    /\ pc = "transition"
    /\ Len(requests) < MaxCalls
    /\ LET res == PermissionTransition(mem, region, execAllowed)
       IN  /\ ret' = res.ret
           /\ Request(region, res)
    /\ UNCHANGED <<pc, instr, region, out, execAllowed, ip, rdi, rax, term,
                   status, mem0, invoked>>

NextTwice == Transition

SpecTwice == InitTwice /\ [][NextTwice]_vars

(***************************************************************************)
(* Properties.                                                             *)
(***************************************************************************)
\* a < b on size_t
Lt64(a, b) ==
    \/ a[4] < b[4]
    \/ a[4] = b[4] /\ a[3] < b[3]
    \/ a[4] = b[4] /\ a[3] = b[3] /\ a[2] < b[2]
    \/ a[4] = b[4] /\ a[3] = b[3] /\ a[2] = b[2] /\ a[1] < b[1]

Le64(a, b) == a = b \/ Lt64(a, b)

Failed == requests # <<>> /\ requests[1].ret # 0
Succeeded == requests # <<>> /\ requests[1].ret = 0
ReadExecOnly(prot) ==
    /\ BitAnd(prot, PROT_READ) # 0
    /\ BitAnd(prot, PROT_EXEC) # 0
    /\ BitAnd(prot, PROT_WRITE) = 0

\* C1: control is transferred into the blob only after the mprotect request
\* of the run has returned 0; when mprotect returns non-zero the run goes to
\* the failure report and ends by returning from main, never entering the blob.
C1_InvokeOnlyAfterSuccess ==
    /\ (invoked \/ pc = "blob" \/ term \in {"exit", "signal"}) => (Succeeded /\ ret = 0)
    /\ Failed => /\ ~invoked
                 /\ pc \in {"L24", "L25", "L26", "done"}
                 /\ pc = "done" => term = "return"

C1_Witness == pc = "blob" /\ invoked /\ Succeeded /\ ip = 0

\* C2: once line 15 has run, region is floor(instr / 4096) * 4096: a multiple
\* of the page size with region <= instr < region + 4096, all bits of instr
\* above the low 12 kept; the request passes this base with a length of 4096.
C2_RegionIsPageFloor ==
    /\ pc \notin {"L11", "L12", "L14", "L15"} =>
          /\ region = PageOf(instr)
          /\ region[1] % PageLen = 0
          /\ <<region[2], region[3], region[4]>> = <<instr[2], instr[3], instr[4]>>
          /\ Le64(region, instr)
          /\ Lt64(instr, Add64(region, PageLen))
    /\ requests # <<>> => requests[1].addr = PageOf(instr) /\ requests[1].len = PageLen

C2_Witness == pc = "L16" /\ region # instr /\ instr[3] # 0 /\ region[3] = instr[3]

\* C3: the region of the request covers every page the blob's bytes touch, and
\* when the blob is invoked every byte of it lies in an executable page.
C3_RegionCoversBlob ==
    /\ requests # <<>> =>
          PagesOfRange(instr, BlobLen) \subseteq PagesOfRequest(requests[1].addr, requests[1].len)
    /\ invoked => \A k \in 0..(BlobLen - 1) : Executable(mem, Add64(instr, k))

\* C5: a failed permission transition is reported: the run goes on to print
\* exactly the errno the failing mprotect set, main returns 1, and no run whose
\* transition succeeded ends with status 1.
C5_FailureReported ==
    /\ Failed =>
          /\ pc \in {"L24", "L25", "L26", "done"}
          /\ pc \in {"L24", "L25"} => errno = requests[1].err
          /\ pc \in {"L26", "done"} => out[Len(out)] = <<25, <<requests[1].err>>>>
          /\ pc = "done" => term = "return" /\ status = 1
    /\ (Succeeded /\ pc = "done") => status # 1

C5_Witness == Failed /\ pc = "done" /\ term = "return" /\ requests[1].err = EACCES

\* C6: a run issues at most one permission-change request, and the page
\* protections are always those at program start changed by that one request
\* if it succeeded (the start's protections if none was issued or it failed).
C6_SingleRequestNoRestore ==
    /\ Len(requests) <= 1
    /\ (requests = <<>> \/ Failed) => mem = mem0
    /\ Succeeded =>
          mem = [p \in DOMAIN mem0 |->
                   IF p \in PagesOfRequest(requests[1].addr, requests[1].len)
                   THEN requests[1].prot ELSE mem0[p]]

C6_Witness == pc = "done" /\ term = "exit" /\ mem # mem0 /\ Len(requests) = 1

C9_TwoEndings ==
    pc = "done" =>
        \/ term = "return" /\ status = 1 /\ Failed /\ ~invoked
        \/ term = "exit" /\ status = 0 /\ Succeeded /\ invoked

\* C10: every request asks for read and execute without write; no page whose
\* protection a request set is writable and executable at once; and once the
\* blob is invoked its first page is readable, executable and not writable.
C10_OnlyReadExec ==
    /\ \A i \in 1..Len(requests) : ReadExecOnly(requests[i].prot)
    /\ \A p \in touched :
          ~(BitAnd(mem[p], PROT_WRITE) # 0 /\ BitAnd(mem[p], PROT_EXEC) # 0)
    /\ invoked => ReadExecOnly(mem[PageOf(instr)])

C10_Witness ==
    /\ invoked
    /\ BitAnd(mem0[PageOf(instr)], PROT_WRITE) # 0
    /\ PageOf(instr) \in touched

====
